---- MODULE Spec2Model ----
(***************************************************************************)
(* Model of src/tree_project.py: the notification queue                    *)
(* (_callback_queue / process_callbacks), Observable, ObsVar and the       *)
(* TreeCtrl binding (populate_tree / on_item_expand / on_item_collapse).   *)
(***************************************************************************)
EXTENDS Naturals, FiniteSets, Sequences, TLC

\* ---------------------------------------------------------------- inputs
\* Observer callbacks (Observer = Callable[[], Any], line 20).  Their bodies
\* are the caller's: one that returns, one that raises, one that calls
\* notify_observers on an Observable.
Callbacks == {"cb", "bad", "re"}
Raising == {"bad"}
Renotifying == {"re"}
\* Plain Observable instances (such as a node's tree_children_change).
Observables == {"o1", "o2"}
\* The Observable the body of a Renotifying callback notifies.
RenotifyTarget == "o1"
\* TreeNode instances; each owns one ObsVar, its tree_label.
Nodes == {"A", "B", "C", "D"}
\* What get_tree_children() of a node may return over time: the values its
\* list of children takes (src/test.py lines 8, 14-15).
Kids(n) ==
    IF n = "A" THEN {<<>>, <<"B", "C">>, <<"C", "B">>}
    ELSE IF n = "B" THEN {<<>>, <<"D">>}
    ELSE {<<>>}
\* The nodes populate_tree is called with: one constructed with children
\* and one constructed without.
Roots == {"A", "C"}
\* The children each node is constructed with, as TestTreeNode(label,
\* children) takes them (src/test.py lines 6-9).
InitialChildren ==
    [n \in Nodes |-> IF n = "A" THEN <<"B", "C">>
                     ELSE IF n = "B" THEN <<"D">> ELSE <<>>]
Labels == {"x", "y"}
\* Threads other than the UI thread that call notify_observers.
DomainThreads == {"t1", "t2"}
\* The label each node is constructed with: ObsVar(label), line 51.
InitialLabel == [n \in Nodes |-> IF n = "A" THEN "x" ELSE "y"]
\* The nodes whose tree_label.set() calls Spec and SpecTree follow.
SetNodes == {"A"}
TreeSetNodes == {"B"}

\* Outstanding wx.CallLater requests the model lets pile up.
MaxRequests == 2
\* Invocations of one callback within one drain the model follows.
MaxRuns == 2
\* Visual items the widget creates over a run.
MaxItems == 3

VARIABLES
    callback_queue,   \* _callback_queue (line 23)
    requests,         \* wx.CallLater(process_callbacks) calls not yet started
    observers,        \* Observable._observers, per Observable
    value,            \* ObsVar._value of each node's tree_label
    pc,               \* UI thread: "idle", or "loop" inside process_callbacks
    last,             \* the last call made and how it ended
    enq,              \* per pending callback, the Observables that enqueued it
    due,              \* observers notified since the last drain started
    \* History of the current drain; of the last drain until the next call.
    ran,              \* invocations of each callback in that drain
    owed,             \* callbacks pending at the moment a callback raised
    batch,            \* value of due when that drain started
    renotified,       \* a callback called notify_observers in that drain
    seen,             \* callbacks pending when that drain started or
                      \* enqueued while it ran
    \* Domain threads inside notify_observers (lines 38-43).
    dpc,              \* "idle", "read" (after line 40), "updated" (after 41)
    dobs,             \* the Observable being notified
    dinvoke,          \* the local variable invoke
    \* TreeCtrl and the wx.TreeCtrl widget it extends.
    widget,           \* live visual items: item |-> parent, text, has_children
    next_item,        \* the next item id AddRoot / AppendItem hands out
    nodes_map,        \* TreeCtrl._nodes_map: item -> node (line 83)
    tree_item_map,    \* TreeCtrl._tree_item_map: node's tree_label -> item
    children,         \* what get_tree_children() of each node returns now
    expanded,         \* live items whose last expand/collapse was an expand
    tlast,            \* detail of the last TreeCtrl handler call
    rebuild_due       \* expanded items whose node's tree_children_change
                      \* fired since their last expand

domain == <<dpc, dobs, dinvoke>>
binding == <<widget, next_item, nodes_map, tree_item_map, children, expanded>>
tree == <<binding, tlast, rebuild_due>>

\* TestTreeNode.is_tree_leaf (src/test.py lines 11-12): a node is a leaf
\* while its list of children is empty.
is_tree_leaf(n) == children[n] = <<>>

vars == <<callback_queue, requests, observers, value, pc, ran, last, owed,
          enq, due, batch, renotified, seen, domain, tree>>

\* last: the call, the object it was made on (or the callback called), the
\* argument of set, whether the call raised, and for a callback whether
\* every Observable that had enqueued it had dropped it by remove_observer
\* before it was called.
Call(op, who, arg, raised) ==
    [op |-> op, who |-> who, arg |-> arg, raised |-> raised,
     cancelled |-> FALSE]

NoCall == Call("none", "-", "-", FALSE)

\* tlast: the item of the event, whether get_tree_children() was called,
\* whether the handler caught an exception (lines 97, 114, 129), whether
\* get_tree_children() raised, the child items and all the items below the
\* item before the call, and whether it was expanded then.
NoHandler == [item |-> 0, queried |-> FALSE, error |-> FALSE,
              fault |-> "none", failed |-> FALSE, before |-> {},
              below |-> {}, was_expanded |-> FALSE]

\* How a node's get_tree_children() behaves in one call of on_item_expand:
\* "none" returns the children; "call" raises when called, or when its
\* result is asked for the first child, or when that child's label is read
\* (lines 106-107, before any item is made); "iter" yields the first child
\* and raises when asked for the second.
Faults == {"none", "call", "iter"}

NoRuns == [c \in Callbacks |-> 0]

\* The Observable that is the tree_children_change of a non-leaf node
\* (lines 71-72): o1 is A's, o2 is B's.
ChildrenChange(n) == IF n = "A" THEN "o1" ELSE IF n = "B" THEN "o2" ELSE "-"

\* rebuild_due after Observable o fired: the expanded items of the node
\* whose tree_children_change o is are due a collapse and expand.
Fired(o) ==
    rebuild_due \cup {i \in expanded : ChildrenChange(nodes_map[i]) = o}

\* A call made outside a drain closes the history of the last drain and of
\* the last handler call.
NewCall ==
    /\ ran' = NoRuns
    /\ owed' = {}
    /\ batch' = {}
    /\ renotified' = FALSE
    /\ seen' = {}
    /\ tlast' = NoHandler

Init ==
    /\ callback_queue = {}
    /\ requests = 0
    /\ observers = [o \in Observables |-> {}]
    /\ value = InitialLabel
    /\ pc = "idle"
    /\ ran = NoRuns
    /\ last = NoCall
    /\ owed = {}
    /\ enq = [c \in Callbacks |-> {}]
    /\ due = {}
    /\ batch = {}
    /\ renotified = FALSE
    /\ seen = {}
    /\ dpc = [t \in DomainThreads |-> "idle"]
    /\ dobs = [t \in DomainThreads |-> "-"]
    /\ dinvoke = [t \in DomainThreads |-> FALSE]
    /\ widget = <<>>
    /\ next_item = 1
    /\ nodes_map = <<>>
    /\ tree_item_map = <<>>
    /\ children = InitialChildren
    /\ expanded = {}
    /\ tlast = NoHandler
    /\ rebuild_due = {}

\* ------------------------------------------------------------ Observable
\* Observable.add_observer (lines 34-35)
add_observer(o, c) ==
    /\ pc = "idle"
    /\ observers' = [observers EXCEPT ![o] = @ \cup {c}]
    /\ last' = Call("add_observer", "-", "-", FALSE)
    /\ NewCall
    /\ UNCHANGED <<callback_queue, requests, value, pc, enq, due, domain,
                   binding, rebuild_due>>

\* Observable.remove_observer (lines 36-37): discards from _observers only;
\* _callback_queue is not touched.
remove_observer(o, c) ==
    /\ pc = "idle"
    /\ observers' = [observers EXCEPT ![o] = @ \ {c}]
    /\ last' = Call("remove_observer", "-", "-", FALSE)
    /\ NewCall
    /\ UNCHANGED <<callback_queue, requests, value, pc, enq, due, domain,
                   binding, rebuild_due>>

\* Body of Observable.notify_observers (lines 38-43) on queue q with r
\* outstanding requests: the queue and the request count it leaves.
notify_observers(o, q, r) ==
    LET invoke == (q = {})
    IN  [queue |-> q \cup observers[o],
         requests |-> IF invoke THEN r + 1 ELSE r]

\* enq after Observable o enqueued its observers
Enqueued(e, o) ==
    [c \in Callbacks |-> IF c \in observers[o] THEN e[c] \cup {o} ELSE e[c]]

\* notify_observers that calls the observers itself instead of queueing.
Notify_synchronous(o) ==
    /\ pc = "idle"
    /\ ran' = [c \in Callbacks |-> IF c \in observers[o] THEN 1 ELSE 0]
    /\ last' = Call("notify", o, "-", FALSE)
    /\ owed' = {}
    /\ batch' = {}
    /\ renotified' = FALSE
    /\ seen' = {}
    /\ tlast' = NoHandler
    /\ rebuild_due' = Fired(o)
    /\ UNCHANGED <<callback_queue, requests, enq, due, observers, value, pc,
                   domain, binding>>

\* A call of o.notify_observers() from outside a drain.
Notify(o) ==
    /\ pc = "idle"
    /\ requests < MaxRequests
    /\ LET n == notify_observers(o, callback_queue, requests)
       IN  /\ callback_queue' = n.queue
           /\ requests' = n.requests
    /\ enq' = Enqueued(enq, o)
    /\ due' = due \cup observers[o]
    /\ last' = Call("notify", o, "-", FALSE)
    /\ NewCall
    /\ rebuild_due' = Fired(o)
    /\ UNCHANGED <<observers, value, pc, domain, binding>>

\* ---------------------------------------------------------------- ObsVar
\* ObsVar.__init__ (lines 51-52) sets _value only and does not call
\* Observable.__init__, so an ObsVar has no _observers attribute:
\* notify_observers raises AttributeError at line 41, after line 40 and
\* before the queue is changed or a drain requested.
\* ObsVar.set without the comparison of line 56: stores and notifies always.
ObsVar_set_unguarded(n, x) ==
    /\ pc = "idle"
    /\ value' = [value EXCEPT ![n] = x]
    /\ last' = Call("set", n, x, TRUE)
    /\ NewCall
    /\ UNCHANGED <<callback_queue, requests, observers, pc, enq, due, domain,
                   binding, rebuild_due>>

\* ObsVar.set (lines 55-58) on node n's tree_label.
ObsVar_set(n, x) ==
    /\ pc = "idle"
    /\ IF x # value[n]
         THEN /\ value' = [value EXCEPT ![n] = x]
              /\ last' = Call("set", n, x, TRUE)
         ELSE /\ value' = value
              /\ last' = Call("set", n, x, FALSE)
    /\ NewCall
    /\ UNCHANGED <<callback_queue, requests, observers, pc, enq, due, domain,
                   binding, rebuild_due>>

\* ObsVar.get (lines 53-54)
ObsVar_get(n) == value[n]

\* add_observer (lines 34-35) called on an ObsVar: self._observers does not
\* exist, AttributeError, nothing is registered.
ObsVar_add_observer(n, c) ==
    /\ pc = "idle"
    /\ last' = Call("add_observer", "-", "-", TRUE)
    /\ NewCall
    /\ UNCHANGED <<callback_queue, requests, observers, value, pc, enq, due,
                   domain, binding, rebuild_due>>

\* ------------------------------------------------------ process_callbacks
\* The event loop starts a requested process_callbacks (line 24).
DrainStart ==
    /\ pc = "idle"
    /\ requests > 0
    /\ requests' = requests - 1
    /\ pc' = "loop"
    /\ ran' = NoRuns
    /\ owed' = {}
    /\ batch' = due
    /\ due' = {}
    /\ renotified' = FALSE
    /\ seen' = callback_queue
    /\ last' = Call("start", "-", "-", FALSE)
    /\ UNCHANGED <<callback_queue, observers, value, enq, domain, tree>>

\* One iteration of the while loop (lines 26-28): pop any callback and call
\* it.  A raising callback ends process_callbacks: there is no try/except.
DrainStep ==
    /\ pc = "loop"
    /\ callback_queue # {}
    /\ \E c \in callback_queue :
         LET q1 == callback_queue \ {c}
             held == {o \in enq[c] : c \in observers[o]}
             e1 == [enq EXCEPT ![c] = {}]
         IN  /\ ran[c] < MaxRuns
             /\ ran' = [ran EXCEPT ![c] = @ + 1]
             /\ last' = [op |-> "call", who |-> c, arg |-> "-",
                         raised |-> (c \in Raising),
                         cancelled |-> (held = {})]
             /\ IF c \in Raising
                  THEN /\ callback_queue' = q1
                       /\ pc' = "idle"
                       /\ owed' = q1
                       /\ enq' = e1
                       /\ UNCHANGED <<requests, renotified, due, seen>>
                  ELSE IF c \in Renotifying
                  THEN LET n == notify_observers(RenotifyTarget, q1, requests)
                       IN  /\ n.requests <= MaxRequests
                           /\ callback_queue' = n.queue
                           /\ requests' = n.requests
                           /\ enq' = Enqueued(e1, RenotifyTarget)
                           /\ renotified' = TRUE
                           /\ seen' = seen \cup observers[RenotifyTarget]
                           /\ due' = due
                           /\ UNCHANGED <<pc, owed>>
                  ELSE /\ callback_queue' = q1
                       /\ enq' = e1
                       /\ UNCHANGED <<pc, owed, requests, renotified, due,
                                      seen>>
    /\ UNCHANGED <<observers, value, batch, domain, tree>>

\* process_callbacks that returns after any number of iterations, without
\* the loop condition of line 26.
DrainExit_early ==
    /\ pc = "loop"
    /\ pc' = "idle"
    /\ last' = Call("exit", "-", "-", FALSE)
    /\ UNCHANGED <<callback_queue, requests, observers, value, ran, owed,
                   enq, due, batch, renotified, seen, domain, tree>>

\* The while condition is false (line 26): process_callbacks returns.
DrainExit ==
    /\ pc = "loop"
    /\ callback_queue = {}
    /\ pc' = "idle"
    /\ last' = Call("exit", "-", "-", FALSE)
    /\ UNCHANGED <<callback_queue, requests, observers, value, ran, owed,
                   enq, due, batch, renotified, seen, domain, tree>>

\* -------------------------------------------------------------- TreeCtrl
\* The scheduler and ObsVar state a TreeCtrl handler leaves alone.
sched == <<callback_queue, requests, observers, value, pc, ran, owed, enq,
           due, batch, renotified, seen>>

\* Child items of item i in widget w, and wx.TreeCtrl.GetFirstChild: items
\* are appended in id order, so the first child is the least id.
ChildItems(w, i) == {j \in DOMAIN w : w[j].parent = i}
GetFirstChild(w, i) ==
    CHOOSE j \in ChildItems(w, i) : \A k \in ChildItems(w, i) : j <= k

\* Items of w below item i, i included.
RECURSIVE Subtree(_, _)
Subtree(w, i) ==
    {i} \cup UNION {Subtree(w, j) : j \in ChildItems(w, i)}

\* wx.TreeCtrl.AddRoot / AppendItem: a new item with the given text, not
\* marked as having children.
AppendItem(w, id, par, text) ==
    [j \in DOMAIN w \cup {id} |->
        IF j = id THEN [parent |-> par, text |-> text, has_children |-> FALSE]
        ELSE w[j]]

\* wx.TreeCtrl.Delete: removes the item and everything below it.
Delete(w, i) == [j \in DOMAIN w \ Subtree(w, i) |-> w[j]]

\* d[k] = v on a dict
Put(d, k, v) == [j \in DOMAIN d \cup {k} |-> IF j = k THEN v ELSE d[j]]

Handler(i, q, e) ==
    [item |-> i, queried |-> q, error |-> e, fault |-> "none",
     failed |-> FALSE,
     before |-> ChildItems(widget, i),
     below |-> IF i \in DOMAIN widget THEN Subtree(widget, i) \ {i} ELSE {},
     was_expanded |-> (i \in expanded)]

\* The handler call in which get_tree_children() raised at lines 106-107.
Failed(i) ==
    [Handler(i, TRUE, TRUE) EXCEPT !.fault = "call", !.failed = TRUE]

\* A handler call on a node whose get_tree_children() behaves as f and did
\* not raise.
Queried(i, e, f) == [Handler(i, TRUE, e) EXCEPT !.fault = f]

\* TreeCtrl.populate_tree (lines 87-98).  Lines 90-91 run; line 92 raises
\* AttributeError (TreeCtrl defines no on_label_change, and an ObsVar has no
\* _observers), which line 97 catches: lines 93-96 never run.
populate_tree(root) ==
    /\ pc = "idle"
    /\ widget = <<>>
    /\ next_item = 1
    /\ LET item_id == next_item
       IN  /\ widget' = AppendItem(widget, item_id, 0, ObsVar_get(root))
           /\ nodes_map' = Put(nodes_map, item_id, root)
           /\ tlast' = Handler(item_id, FALSE, TRUE)
    /\ next_item' = next_item + 1
    /\ last' = Call("populate_tree", "-", "-", FALSE)
    /\ UNCHANGED <<tree_item_map, children, expanded, rebuild_due, sched,
                   domain>>

\* on_item_expand without the is_tree_leaf() test of line 105.
on_item_expand_unguarded(item, fault) ==
    /\ pc = "idle"
    /\ item \in DOMAIN widget
    /\ LET node == nodes_map[item]
           kids == children[node]
       IN  IF fault = "call"
             THEN /\ tlast' = Failed(item)
                  /\ UNCHANGED <<widget, nodes_map, next_item>>
             ELSE IF kids = <<>>
             THEN /\ tlast' = Queried(item, FALSE, fault)
                  /\ UNCHANGED <<widget, nodes_map, next_item>>
             ELSE LET child == Head(kids)
                      child_item == next_item
                  IN  /\ next_item <= MaxItems
                      /\ widget' = AppendItem(widget, child_item, item,
                                              ObsVar_get(child))
                      /\ nodes_map' = Put(nodes_map, child_item, child)
                      /\ next_item' = next_item + 1
                      /\ tlast' = Queried(item, TRUE, fault)
    /\ expanded' = expanded \cup {item}
    /\ last' = Call("on_item_expand", "-", "-", FALSE)
    /\ rebuild_due' = rebuild_due \ {item}
    /\ UNCHANGED <<tree_item_map, children, sched, domain>>

\* on_item_expand whose try does not cover line 106: an exception of
\* get_tree_children() leaves the handler.
on_item_expand_uncaught(item, fault) ==
    /\ pc = "idle"
    /\ item \in DOMAIN widget
    /\ LET node == nodes_map[item]
           kids == children[node]
       IN  IF is_tree_leaf(node)
             THEN /\ tlast' = Handler(item, FALSE, FALSE)
                  /\ last' = Call("on_item_expand", "-", "-", FALSE)
                  /\ UNCHANGED <<widget, nodes_map, next_item>>
             ELSE IF fault = "call"
             THEN /\ tlast' = [Failed(item) EXCEPT !.error = FALSE]
                  /\ last' = Call("on_item_expand", "-", "-", TRUE)
                  /\ UNCHANGED <<widget, nodes_map, next_item>>
             ELSE IF kids = <<>>
             THEN /\ tlast' = Queried(item, FALSE, fault)
                  /\ last' = Call("on_item_expand", "-", "-", FALSE)
                  /\ UNCHANGED <<widget, nodes_map, next_item>>
             ELSE LET child == Head(kids)
                      child_item == next_item
                  IN  /\ next_item <= MaxItems
                      /\ widget' = AppendItem(widget, child_item, item,
                                              ObsVar_get(child))
                      /\ nodes_map' = Put(nodes_map, child_item, child)
                      /\ next_item' = next_item + 1
                      /\ tlast' = Queried(item, TRUE, fault)
                      /\ last' = Call("on_item_expand", "-", "-", FALSE)
    /\ expanded' = expanded \cup {item}
    /\ rebuild_due' = rebuild_due \ {item}
    /\ UNCHANGED <<tree_item_map, children, sched, domain>>

\* TreeCtrl.on_item_expand (lines 100-115) for an event on a live item of
\* a node whose get_tree_children() behaves as fault.  An exception of
\* lines 106-107 is caught at line 114 before anything was created.
\* Otherwise, for a non-leaf node, the first iteration of the loop runs
\* lines 107-108 and raises AttributeError at line 109, caught at line 114:
\* the loop never asks for a second child, so "iter" never raises.
\* (An empty result would run no iteration; with TestTreeNode a node whose
\* list is empty is a leaf and never gets there.)
on_item_expand(item, fault) ==
    /\ pc = "idle"
    /\ item \in DOMAIN widget
    /\ LET node == nodes_map[item]
           kids == children[node]
       IN  IF is_tree_leaf(node)
             THEN /\ tlast' = Handler(item, FALSE, FALSE)
                  /\ UNCHANGED <<widget, nodes_map, next_item>>
             ELSE IF fault = "call"
             THEN /\ tlast' = Failed(item)
                  /\ UNCHANGED <<widget, nodes_map, next_item>>
             ELSE IF kids = <<>>
             THEN /\ tlast' = Queried(item, FALSE, fault)
                  /\ UNCHANGED <<widget, nodes_map, next_item>>
             ELSE LET child == Head(kids)
                      child_item == next_item
                  IN  /\ next_item <= MaxItems
                      /\ widget' = AppendItem(widget, child_item, item,
                                              ObsVar_get(child))
                      /\ nodes_map' = Put(nodes_map, child_item, child)
                      /\ next_item' = next_item + 1
                      /\ tlast' = Queried(item, TRUE, fault)
    /\ expanded' = expanded \cup {item}
    /\ last' = Call("on_item_expand", "-", "-", FALSE)
    /\ rebuild_due' = rebuild_due \ {item}
    /\ UNCHANGED <<tree_item_map, children, sched, domain>>

\* TreeCtrl.on_item_collapse (lines 117-130) for an event on a live item.
\* For a non-leaf node the first iteration of the loop deletes the first
\* child item (lines 124-125; with no child item Delete fails) and raises
\* AttributeError at line 126, caught at line 129: neither map is changed.
on_item_collapse(item) ==
    /\ pc = "idle"
    /\ item \in DOMAIN widget
    /\ LET node == nodes_map[item]
           kids == children[node]
       IN  IF is_tree_leaf(node)
             THEN /\ tlast' = Handler(item, FALSE, FALSE)
                  /\ widget' = widget
             ELSE IF kids = <<>>
             THEN /\ tlast' = Handler(item, TRUE, FALSE)
                  /\ widget' = widget
             ELSE /\ tlast' = Handler(item, TRUE, TRUE)
                  /\ widget' = IF ChildItems(widget, item) = {}
                                 THEN widget
                                 ELSE Delete(widget,
                                             GetFirstChild(widget, item))
    /\ expanded' = (expanded \ {item}) \cap DOMAIN widget'
    /\ rebuild_due' = (rebuild_due \ {item}) \cap DOMAIN widget'
    /\ last' = Call("on_item_collapse", "-", "-", FALSE)
    /\ UNCHANGED <<nodes_map, tree_item_map, next_item, children, sched,
                   domain>>

\* The domain model changes what get_tree_children() of a node returns
\* (src/test.py lines 8, 14-15: the node's list of children).
ChangeChildren(n, ks) ==
    /\ pc = "idle"
    /\ ks # children[n]
    /\ children' = [children EXCEPT ![n] = ks]
    /\ last' = Call("children", "-", "-", FALSE)
    /\ NewCall
    /\ UNCHANGED <<widget, next_item, nodes_map, tree_item_map, expanded,
                   rebuild_due, callback_queue, requests, observers, value,
                   pc, enq, due, domain>>

NextTree ==
    \/ \E root \in Roots : populate_tree(root)
    \/ \E item \in 1..MaxItems, fault \in Faults :
          on_item_expand(item, fault)
    \/ \E item \in 1..MaxItems : on_item_collapse(item)
    \/ \E n \in TreeSetNodes, x \in Labels : ObsVar_set(n, x)
    \/ \E n \in Nodes : \E ks \in Kids(n) : ChangeChildren(n, ks)

\* The TreeCtrl handlers, on the UI thread, with the domain model changing
\* labels and children between them.
SpecTree == Init /\ [][NextTree]_vars

NextRebuild ==
    \/ \E root \in Roots : populate_tree(root)
    \/ \E item \in 1..MaxItems : on_item_expand(item, "none")
    \/ \E item \in 1..MaxItems : on_item_collapse(item)
    \/ \E n \in Nodes : \E ks \in Kids(n) : ChangeChildren(n, ks)
    \/ \E o \in Observables : Notify(o)
    \/ DrainStart
    \/ DrainExit

\* The TreeCtrl handlers with the domain model changing children and firing
\* tree_children_change, and the drains this requests: the binding has
\* registered no observer, so a drain finds nothing to call.
SpecRebuild == Init /\ [][NextRebuild]_vars

\* ------------------------------------- notify_observers on a domain thread
\* Line 40: invoke = (not _callback_queue)
notify_read(t, o) ==
    /\ dpc[t] = "idle"
    /\ dpc' = [dpc EXCEPT ![t] = "read"]
    /\ dobs' = [dobs EXCEPT ![t] = o]
    /\ dinvoke' = [dinvoke EXCEPT ![t] = (callback_queue = {})]
    /\ UNCHANGED <<callback_queue, requests, observers, value, pc, ran, last,
                   owed, enq, due, batch, renotified, seen, tree>>

\* Line 41: _callback_queue.update(self._observers)
notify_update(t) ==
    /\ dpc[t] = "read"
    /\ callback_queue' = callback_queue \cup observers[dobs[t]]
    /\ enq' = Enqueued(enq, dobs[t])
    /\ dpc' = [dpc EXCEPT ![t] = "updated"]
    /\ dobs' = [dobs EXCEPT ![t] = "-"]
    /\ seen' = IF pc = "loop" THEN seen \cup observers[dobs[t]] ELSE seen
    /\ UNCHANGED <<requests, observers, value, pc, ran, last, owed, due,
                   batch, renotified, dinvoke, tree>>

\* Lines 42-43: if invoke: wx.CallLater(process_callbacks)
notify_call(t) ==
    /\ dpc[t] = "updated"
    /\ dinvoke[t] => requests < MaxRequests
    /\ requests' = IF dinvoke[t] THEN requests + 1 ELSE requests
    /\ dpc' = [dpc EXCEPT ![t] = "idle"]
    /\ dinvoke' = [dinvoke EXCEPT ![t] = FALSE]
    /\ UNCHANGED <<callback_queue, observers, value, pc, ran, last, owed,
                   enq, due, batch, renotified, seen, dobs, tree>>

\* Callbacks that return: the only ones registered under SpecConc.
Returning == Callbacks \ (Raising \cup Renotifying)

NextConc ==
    \/ \E o \in Observables, c \in Returning : add_observer(o, c)
    \/ \E t \in DomainThreads, o \in Observables : notify_read(t, o)
    \/ \E t \in DomainThreads : notify_update(t)
    \/ \E t \in DomainThreads : notify_call(t)
    \/ DrainStart
    \/ DrainStep
    \/ DrainExit

\* The UI thread runs sequentially; domain threads interleave with it at
\* every line of notify_observers.
SpecConc == Init /\ [][NextConc]_vars

Next ==
    \/ \E o \in Observables, c \in Callbacks : add_observer(o, c)
    \/ \E o \in Observables, c \in Callbacks : remove_observer(o, c)
    \/ \E o \in Observables : Notify(o)
    \/ \E n \in SetNodes, x \in Labels : ObsVar_set(n, x)
    \/ \E n \in SetNodes, c \in Callbacks : ObsVar_add_observer(n, c)
    \/ DrainStart
    \/ DrainStep
    \/ DrainExit

Spec == Init /\ [][Next]_vars

\* ================================================================ claims

\* C1: when a callback raises inside process_callbacks, every callback that
\* was pending at that moment is still invoked before the drain ends; so no
\* drain ends owing an invocation.
C1_DrainContinuesAfterRaise == pc = "idle" => owed = {}

\* C2: an observer removed by remove_observer after notify_observers put it
\* in the pending set, and that no other Observable still holding it has
\* enqueued, is not invoked by the drain.
C2_RemovedObserverNotInvoked == last.op = "call" => ~last.cancelled

\* C3: with notify_observers interleaving with process_callbacks, no
\* callback is left pending while no drain is running or requested and no
\* notify_observers call is still in progress.
C3_NoStrandedCallback ==
    (callback_queue # {} /\ \A t \in DomainThreads : dpc[t] = "idle")
        => (pc = "loop" \/ requests > 0)

\* C4: a drain in which no callback notified again has, when it ends,
\* invoked exactly once each observer that notify_observers enqueued
\* between the previous drain and this one.
C4_ExactlyOncePerDrain ==
    (pc = "idle" /\ last.op \in {"exit", "call"} /\ ~renotified)
        => \A c \in batch : ran[c] = 1

\* C5: ObsVar.set(v) with v equal to the current value returns having
\* changed nothing: value, pending set and drain requests are as before and
\* no callback has run.
C5_SetSameValueIsNoOp ==
    [][(last'.op = "set" /\ last'.arg = ObsVar_get(last'.who))
         => /\ value' = value
            /\ callback_queue' = callback_queue
            /\ requests' = requests
            /\ ran' = NoRuns
            /\ ~last'.raised]_vars

\* C5 witness: set was called with the current value while callbacks were
\* pending and a drain was requested.
C5_Witness ==
    /\ last.op = "set"
    /\ ~last.raised
    /\ last.arg = ObsVar_get(last.who)
    /\ callback_queue # {}
    /\ requests > 0

\* C6: notify_observers and ObsVar.set run no callback: when either call
\* ends no callback has been invoked and no drain is running, and after
\* set(v) get() is v.
C6_NoSynchronousInvocation ==
    [][last'.op \in {"notify", "set"}
         => /\ ran' = NoRuns
            /\ pc' = "idle"
            /\ (last'.op = "set" => value'[last'.who] = last'.arg)]_vars

\* C6 witness: notify_observers has enqueued observers and requested a
\* drain, none of them has run; the value set before is what get() returns.
C6_Witness ==
    /\ last.op = "notify"
    /\ observers[last.who] # {}
    /\ observers[last.who] \subseteq callback_queue
    /\ requests > 0
    /\ ran = NoRuns
    /\ ObsVar_get("A") # InitialLabel["A"]

\* C7: _nodes_map and _tree_item_map are mutually consistent: item i maps
\* to node n exactly when n's label cell maps to i.
C7_MapsConsistent ==
    /\ \A i \in DOMAIN nodes_map :
         /\ nodes_map[i] \in DOMAIN tree_item_map
         /\ tree_item_map[nodes_map[i]] = i
    /\ \A n \in DOMAIN tree_item_map :
         /\ tree_item_map[n] \in DOMAIN nodes_map
         /\ nodes_map[tree_item_map[n]] = n

\* C8: after on_item_expand on a collapsed item of a non-leaf node whose
\* get_tree_children() returns k nodes, the item has exactly k child items,
\* one per returned child with that child's label as text, each child
\* mapped to its item in both maps.
C8_ExpandCreatesOneItemPerChild ==
    (/\ last.op = "on_item_expand"
     /\ ~tlast.was_expanded
     /\ tlast.before = {}
     /\ ~is_tree_leaf(nodes_map[tlast.item]))
        => LET kids == children[nodes_map[tlast.item]]
               its == ChildItems(widget, tlast.item)
           IN  /\ Cardinality(its) = Len(kids)
               /\ \A k \in 1..Len(kids) :
                    \E j \in its :
                       /\ nodes_map[j] = kids[k]
                       /\ widget[j].text = ObsVar_get(kids[k])
                       /\ kids[k] \in DOMAIN tree_item_map
                       /\ tree_item_map[kids[k]] = j

\* C9: after on_item_collapse on an expanded item, every child item it had
\* is destroyed and has no entry left in either map.  (The handlers register
\* no observer on any node, so none is left registered.)
C9_CollapseRemovesChildren ==
    (last.op = "on_item_collapse" /\ tlast.was_expanded)
        => /\ ChildItems(widget, tlast.item) = {}
           /\ \A j \in tlast.before :
                /\ j \notin DOMAIN widget
                /\ j \notin DOMAIN nodes_map
                /\ \A n \in DOMAIN tree_item_map : tree_item_map[n] # j

\* C10: the item of a leaf node is never marked as having children, and
\* on_item_expand on it calls no get_tree_children(), creates no item and
\* leaves both maps and all observer registrations as they were.
C10_LeafNeverExpands ==
    [][/\ (\A i \in DOMAIN widget :
              is_tree_leaf(nodes_map[i]) => ~widget[i].has_children)'
       /\ (last'.op = "on_item_expand"
              /\ is_tree_leaf(nodes_map[tlast'.item]))
            => /\ ~tlast'.queried
               /\ ~tlast'.error
               /\ widget' = widget
               /\ next_item' = next_item
               /\ nodes_map' = nodes_map
               /\ tree_item_map' = tree_item_map
               /\ observers' = observers]_vars

\* C10 witness: on_item_expand was called on the item of a leaf node that
\* the expand of its parent created.
C10_Witness ==
    /\ last.op = "on_item_expand"
    /\ is_tree_leaf(nodes_map[tlast.item])
    /\ widget[tlast.item].parent # 0
    /\ ~tlast.queried

\* C11: when get_tree_children() raises during on_item_expand, the
\* exception does not leave the handler and nothing of the expand remains:
\* no item was created, neither map changed, no observer was registered.
C11_FailedExpandIsNothing ==
    [][(last'.op = "on_item_expand" /\ tlast'.failed)
         => /\ ~last'.raised
            /\ widget' = widget
            /\ next_item' = next_item
            /\ nodes_map' = nodes_map
            /\ tree_item_map' = tree_item_map
            /\ observers' = observers]_vars

\* C11 witness: get_tree_children() raised in on_item_expand on a collapsed
\* item of a non-leaf node with children; the item has no child item.
C11_Witness ==
    /\ last.op = "on_item_expand"
    /\ tlast.failed
    /\ ~tlast.was_expanded
    /\ children[nodes_map[tlast.item]] # <<>>
    /\ ChildItems(widget, tlast.item) = {}

\* No callback is pending, no drain is requested or running, and no domain
\* thread is inside notify_observers.
Quiescent ==
    /\ pc = "idle"
    /\ callback_queue = {}
    /\ requests = 0
    /\ \A t \in DomainThreads : dpc[t] = "idle"

\* C12: once a label change of a materialized node has been delivered
\* (nothing pending, no drain requested or running), the text of every
\* live item is the current tree_label of its node.
C12_TextFollowsLabel ==
    Quiescent =>
        \A i \in DOMAIN widget : widget[i].text = ObsVar_get(nodes_map[i])

\* The child items of item i correspond one-to-one, in order, to what
\* get_tree_children() of its node returns now.
ChildrenMatch(i) ==
    LET kids == children[nodes_map[i]]
        its == ChildItems(widget, i)
    IN  /\ Cardinality(its) = Len(kids)
        /\ \A k \in 1..Len(kids) :
              \E j \in its :
                  /\ nodes_map[j] = kids[k]
                  /\ Cardinality({h \in its : h < j}) = k - 1

\* C13: once the drain that follows a firing of tree_children_change on an
\* expanded item's node has ended, the child items of that item match what
\* get_tree_children() returns now.
C13_ChildrenRebuiltAfterChange ==
    Quiescent => \A i \in rebuild_due : ChildrenMatch(i)

\* The live items that have no parent.
RootItems == {i \in DOMAIN widget : widget[i].parent = 0}

\* C14: once the binding is created (TreeCtrl(root, parent) has returned,
\* or populate_tree has) there is exactly one root item; it is mapped to the
\* root node in both maps, shows the root's label, is marked as having
\* children exactly when the root is not a leaf, and the root's
\* tree_children_change has an observer.
C14_RootAttachedAtCreation ==
    last.op \in {"none", "populate_tree"}
        => \E i \in RootItems :
              /\ RootItems = {i}
              /\ i \in DOMAIN nodes_map
              /\ LET root == nodes_map[i]
                 IN  /\ root \in DOMAIN tree_item_map
                     /\ tree_item_map[root] = i
                     /\ widget[i].text = ObsVar_get(root)
                     /\ widget[i].has_children = ~is_tree_leaf(root)
                     /\ ChildrenChange(root) \in Observables
                           => observers[ChildrenChange(root)] # {}

\* C18: get_tree_children() is called by on_item_expand only.
C18_ChildrenQueriedOnlyByExpand ==
    tlast.queried => last.op = "on_item_expand"

\* C19: after on_item_collapse on an item that had a child item with child
\* items of its own, no item that was below it at any depth is live or has
\* an entry in either map.
C19_CollapseIsRecursive ==
    (last.op = "on_item_collapse" /\ tlast.below # tlast.before)
        => \A j \in tlast.below :
              /\ j \notin DOMAIN widget
              /\ j \notin DOMAIN nodes_map
              /\ \A n \in DOMAIN tree_item_map : tree_item_map[n] # j

\* C15: at most one requested drain has not started yet.
C15_OneDrainRequest == requests <= 1

\* C16: notify_observers on an Observable without observers changes neither
\* the pending set nor the drain requests.
C16_NotifyWithoutObserversIsNoOp ==
    [][(last'.op = "notify" /\ observers[last'.who] = {})
         => /\ callback_queue' = callback_queue
            /\ requests' = requests]_vars

\* C17: process_callbacks returns from its loop only with the pending set
\* empty and with every callback that was pending when it started or was
\* enqueued while it ran invoked at least once; each invocation removes the
\* invoked callback, and nothing else, from the pending set.
C17_DrainRunsToEmpty ==
    [][/\ last'.op = "exit"
          => /\ callback_queue' = {}
             /\ \A c \in seen' : ran'[c] >= 1
       /\ last'.op = "call"
          => /\ last'.who \in callback_queue
             /\ ran'[last'.who] = ran[last'.who] + 1
             /\ callback_queue \ callback_queue' \subseteq {last'.who}]_vars

\* C17 witness: a drain returned from its loop after a callback notified
\* again: "cb", pending at the start, ran, was enqueued again by "re" and
\* ran again.
C17_Witness ==
    /\ last.op = "exit"
    /\ renotified
    /\ ran["cb"] = 2
    /\ ran["re"] >= 1
    /\ callback_queue = {}

\* C20: notify_observers on an Observable with observers leaves a drain
\* requested or running, also after a drain that a raising callback ended.
C20_NotifyRequestsDrain ==
    (last.op = "notify" /\ observers[last.who] # {})
        => (requests > 0 \/ pc = "loop")

====
